---- MODULE Spec2Model ----
(***************************************************************************)
(* A model of the exploratory-data-analysis assistant:                     *)
(*   src/eda.py     the analysis tools (validation order, outcomes)        *)
(*   src/agent.py   EDAAgent.ask, interpret_plot, ask_conclusion           *)
(*   src/main.py    the Streamlit script: one action per script run        *)
(*                                                                         *)
(* Python values are records with a "kind" field, so that None, strings    *)
(* and figures can be compared with one another.  A Python str is the      *)
(* sequence of the pieces it was formatted from.                           *)
(***************************************************************************)
EXTENDS FiniteSets, Integers, Sequences, TLC

VARIABLES
    chat_history,         \* st.session_state.chat_history: list of dicts
    conclusion,           \* st.session_state.conclusion: None or str
    agent,                \* st.session_state.agent: None or the EDAAgent
    df,                   \* st.session_state.df / EDAAgent.df: None or the dataset
    file_name,            \* st.session_state.file_name
    initial_report_data,  \* st.session_state.initial_report_data
    api_key,              \* text_input widget: TRUE when a key is typed
    uploaded_file,        \* file_uploader widget: None or the file
    download,             \* the download button as last rendered
    submitted,            \* the prompts st.chat_input has returned, in order
    call,                 \* the last direct call of a function, or None
    ret                   \* what that call produced

vars == <<chat_history, conclusion, agent, df, file_name, initial_report_data,
          api_key, uploaded_file, download, submitted, call, ret>>

----------------------------------------------------------------------------
\* Bounds of the model.

MaxRows == 2        \* rows of an enumerated dataset
MaxClusters == 3    \* largest n_clusters the external model supplies
MaxTurns == 2       \* chat turns of a session

----------------------------------------------------------------------------
\* Python values.

None == [kind |-> "None"]
Str(parts) == [kind |-> "str", parts |-> parts]
T(s) == Str(<<s>>)

\* bool(v) for the values the program tests: None and "" are falsy, an empty
\* list is falsy.
Truthy(v) == v # None /\ v # Str(<<>>)

\* dict.update(e)
Update(d, e) ==
    [k \in DOMAIN d \cup DOMAIN e |-> IF k \in DOMAIN e THEN e[k] ELSE d[k]]

\* dict.get(k, default)
Get(d, k, default) == IF k \in DOMAIN d THEN d[k] ELSE default

----------------------------------------------------------------------------
\* The dataset: a table with named, typed columns.  Every enumerated dataset
\* has the schema below; its rows differ in which numeric cells are missing.

NumericColumns == {"age", "income"}
CategoricalColumns == {"city"}
Columns == NumericColumns \cup CategoricalColumns
\* column names the external model may put in a tool call: "zip" is in no schema
ColumnNames == Columns \cup {"zip"}

\* nrows rows; na[c] is the set of rows whose cell in column c is missing
Datasets ==
    UNION { { [kind |-> "DataFrame", nrows |-> n,
               na |-> [c \in Columns |-> IF c \in NumericColumns THEN m[c] ELSE {}]] :
                m \in [NumericColumns -> SUBSET (1..n)] } : n \in 0..MaxRows }

\* a type check that accepts every column
is_numeric_dtype_Any(d, col) == TRUE

\* pd.api.types.is_numeric_dtype(df[col])
is_numeric_dtype(d, col) == col \in NumericColumns

\* len(df[[x, y]].dropna()): rows in which both cells are present
PairedRows(d, x, y) == { i \in 1..d.nrows : i \notin d.na[x] /\ i \notin d.na[y] }

\* df[col].nunique(): the cells of a column hold one distinct value per row
nunique(d, col) == d.nrows - Cardinality(d.na[col])

----------------------------------------------------------------------------
\* Outcomes of a call: a returned value or a raised exception, with the
\* stages of the function body that ran before it ended.

Returned(v, stages) == [raised |-> FALSE, value |-> v, stages |-> stages]
Raised(exc, msg, stages) ==
    [raised |-> TRUE, exc |-> exc, msg |-> msg, stages |-> stages]

Figure(title) == [kind |-> "Figure", title |-> title]
IsFigure(v) == v.kind = "Figure"

\* The plotting and clustering libraries either finish or fail: lib is "ok" or
\* "raise".  A failure is an exception that is neither ValueError nor TypeError.
Plot(title, lib, stages) ==
    IF lib = "raise"
    THEN Raised("RuntimeError", <<"library failure">>, stages \o <<"plot">>)
    ELSE Returned(Figure(title), stages \o <<"plot">>)

----------------------------------------------------------------------------
\* src/eda.py: the analysis tools.  Each takes the dataset and its named
\* parameters and returns a str or a Figure, or raises.

ColumnNotFoundDF(col) == <<"Coluna '", col, "' nao encontrada no DataFrame.">>
ColumnNotFound(col) == <<"Coluna '", col, "' nao encontrada.">>

get_data_description(d) ==
    Returned(Str(<<"Informacoes Gerais das Colunas", "Estatisticas Descritivas">>),
             <<"compute">>)

generate_histogram(d, column_name, lib) ==
    IF column_name \notin Columns
    THEN Raised("ValueError", ColumnNotFoundDF(column_name), <<>>)
    ELSE IF ~is_numeric_dtype(d, column_name)
    THEN Raised("TypeError",
                <<"A coluna '", column_name,
                  "' nao e numerica e nao pode ser usada para um histograma.">>, <<>>)
    ELSE Plot(<<"Distribuicao de ", column_name>>, lib, <<>>)

\* the validation loop of generate_scatter_plot and perform_k_means_clustering:
\* for col in cols: existence of col, then type of col.  None when all pass.
RECURSIVE CheckColumns(_, _, _, _)
CheckColumns(d, cols, not_found, not_numeric) ==
    IF cols = <<>> THEN None
    ELSE LET col == Head(cols) IN
         IF col \notin Columns
         THEN Raised("ValueError", <<"Coluna '", col, not_found>>, <<>>)
         ELSE IF ~is_numeric_dtype(d, col)
         THEN Raised("TypeError", <<"A coluna '", col, not_numeric>>, <<>>)
         ELSE CheckColumns(d, Tail(cols), not_found, not_numeric)

generate_scatter_plot(d, column_x, column_y, lib) ==
    LET bad == CheckColumns(d, <<column_x, column_y>>,
                   "' nao encontrada no DataFrame.",
                   "' nao e numerica. Graficos de dispersao requerem dados numericos.")
    IN  IF bad # None THEN bad
        ELSE Plot(<<"Relacao entre ", column_x, " e ", column_y>>, lib, <<>>)

get_correlation_matrix(d, lib) ==
    IF Cardinality({c \in Columns : is_numeric_dtype(d, c)}) < 2
    THEN Raised("ValueError",
                <<"A matriz de correlacao requer pelo menos duas colunas numericas.">>,
                <<>>)
    ELSE Plot(<<"Matriz de Correlacao">>, lib, <<"compute">>)

get_value_counts(d, column_name) ==
    IF column_name \notin Columns
    THEN Raised("ValueError", ColumnNotFoundDF(column_name), <<>>)
    ELSE Returned(Str(<<"Contagem de valores para a coluna '", column_name, "'">>),
                  <<"compute">>)

generate_box_plot(d, column_name, lib) ==
    IF column_name \notin Columns
    THEN Raised("ValueError", ColumnNotFound(column_name), <<>>)
    ELSE IF ~is_numeric_dtype(d, column_name)
    THEN Raised("TypeError",
                <<"A coluna '", column_name,
                  "' nao e numerica e nao pode ser usada para um box plot.">>, <<>>)
    ELSE Plot(<<"Box Plot de ", column_name, " (Analise de Outliers)">>, lib, <<>>)

\* a comparison that also rejects as many rows as clusters
TooFewRows_OffByOne(n_rows, n_clusters) == n_rows <= n_clusters

\* len(data_to_cluster) < n_clusters
TooFewRows(n_rows, n_clusters) == n_rows < n_clusters

perform_k_means_clustering(d, column_x, column_y, n_clusters, lib) ==
    LET bad == CheckColumns(d, <<column_x, column_y>>, "' nao encontrada.",
                   "' nao e numerica e nao pode ser usada para clusterizacao.")
        n_rows == Cardinality(PairedRows(d, column_x, column_y))
    IN  IF bad # None THEN bad
        ELSE IF TooFewRows(n_rows, n_clusters)
        THEN Raised("ValueError",
                    <<"Nao ha dados suficientes para formar os clusters solicitados.">>,
                    <<"dropna">>)
        \* StandardScaler rejects an empty table and KMeans a cluster count
        \* below one, each with a ValueError of its own
        ELSE IF n_rows = 0 \/ n_clusters < 1
        THEN Raised("ValueError", <<"library failure">>, <<"dropna", "cluster">>)
        ELSE IF lib = "raise"
        THEN Raised("RuntimeError", <<"library failure">>, <<"dropna", "cluster">>)
        ELSE Plot(<<"Clusterizacao K-Means (", ToString(n_clusters), " clusters)">>,
                  lib, <<"dropna", "cluster">>)

analyze_missing_data(d) ==
    IF \A c \in Columns : d.na[c] = {}
    THEN Returned(Str(<<"Otima noticia! Nao foram encontrados dados faltantes em nenhuma coluna.">>),
                  <<"compute">>)
    ELSE Returned(Str(<<"Analise de Dados Faltantes">>), <<"compute">>)

\* str(val) of the cell in row i of a column: its value, or nan where missing
Cell(d, col, i) == IF i \in d.na[col] THEN "nan" ELSE ToString(i)

\* df[col].unique(): the values in order of first appearance, the missing
\* value among them (once) when the column has one
unique(d, col) ==
    LET first == SelectSeq([i \in 1..d.nrows |-> i],
                           LAMBDA i : \A j \in 1..(i - 1) :
                                        Cell(d, col, j) # Cell(d, col, i))
    IN  [k \in DOMAIN first |-> Cell(d, col, first[k])]

get_unique_values(d, column_name) ==
    IF column_name \notin Columns
    THEN Raised("ValueError", ColumnNotFoundDF(column_name), <<>>)
    ELSE LET unique_values == unique(d, column_name)
             num_unique_values == nunique(d, column_name)
             report == <<"Analise de Valores Unicos para a Coluna '", column_name,
                         "': ", ToString(num_unique_values)>>
         IN  Returned(
               Str(IF num_unique_values <= 20
                   THEN report \o <<"Valores: ">> \o unique_values
                   ELSE report \o <<"Amostra de valores: ">>
                        \o SubSeq(unique_values, 1, 5)
                        \o <<"(e mais ", ToString(num_unique_values - 5), ")">>),
               <<"compute">>)

generate_value_counts_bar_chart(d, column_name, lib) ==
    IF column_name \notin Columns
    THEN Raised("ValueError", ColumnNotFound(column_name), <<>>)
    ELSE IF is_numeric_dtype(d, column_name) /\ nunique(d, column_name) > 20
    THEN Raised("TypeError",
                <<"A coluna '", column_name,
                  "' e numerica com muitos valores. Use um histograma.">>, <<>>)
    ELSE Plot(<<"Contagem de Valores para ", column_name>>, lib, <<"compute">>)

----------------------------------------------------------------------------
\* src/agent.py: the tool catalog and the call tool_function(**tool_args).

\* EDAAgent.tools, by __name__, in list order
ToolNames ==
    << "get_data_description", "generate_histogram", "generate_scatter_plot",
       "get_correlation_matrix", "get_value_counts", "generate_box_plot",
       "perform_k_means_clustering", "analyze_missing_data", "get_unique_values",
       "generate_value_counts_bar_chart" >>

Range(s) == { s[i] : i \in DOMAIN s }

\* the parameters of each tool besides df: those without a default, and all
Required(name) ==
    CASE name \in {"generate_histogram", "get_value_counts", "generate_box_plot",
                   "get_unique_values", "generate_value_counts_bar_chart"}
           -> {"column_name"}
      [] name \in {"generate_scatter_plot", "perform_k_means_clustering"}
           -> {"column_x", "column_y"}
      [] OTHER -> {}

Accepted(name) ==
    IF name = "perform_k_means_clustering"
    THEN Required(name) \cup {"n_clusters"}
    ELSE Required(name)

\* n_clusters: int = 3
DefaultClusters == 3

\* The keyword arguments of a call, as the external model supplies them:
\* column names under cols, numbers under nums.
ArgKeys(args) == DOMAIN args.cols \cup DOMAIN args.nums

\* tool_function(**tool_args): Python binds the keywords to the parameters
\* (TypeError on a missing or an unexpected keyword) and runs the body.
Invoke(name, d, args, lib) ==
    IF ~(Required(name) \subseteq ArgKeys(args) /\ ArgKeys(args) \subseteq Accepted(name))
    THEN Raised("TypeError", <<name, "() got unexpected or missing arguments">>, <<>>)
    ELSE CASE name = "get_data_description" -> get_data_description(d)
           [] name = "generate_histogram" ->
                generate_histogram(d, args.cols.column_name, lib)
           [] name = "generate_scatter_plot" ->
                generate_scatter_plot(d, args.cols.column_x, args.cols.column_y, lib)
           [] name = "get_correlation_matrix" -> get_correlation_matrix(d, lib)
           [] name = "get_value_counts" -> get_value_counts(d, args.cols.column_name)
           [] name = "generate_box_plot" ->
                generate_box_plot(d, args.cols.column_name, lib)
           [] name = "perform_k_means_clustering" ->
                perform_k_means_clustering(d, args.cols.column_x, args.cols.column_y,
                    IF "n_clusters" \in DOMAIN args.nums
                    THEN args.nums.n_clusters ELSE DefaultClusters, lib)
           [] name = "analyze_missing_data" -> analyze_missing_data(d)
           [] name = "get_unique_values" -> get_unique_values(d, args.cols.column_name)
           [] name = "generate_value_counts_bar_chart" ->
                generate_value_counts_bar_chart(d, args.cols.column_name, lib)

----------------------------------------------------------------------------
\* The calls the external model can ask for.

\* the keyword sets the external model sends: the right ones for some tool,
\* one missing, one too many
KeySets ==
    { {}, {"column_name"}, {"column_x"}, {"column_y"}, {"column_x", "column_y"},
      {"column_name", "column_x"} }

ToolArgs ==
    { [cols |-> c, nums |-> n] :
        c \in UNION { [K -> ColumnNames] : K \in KeySets },
        n \in UNION { [K -> 0..MaxClusters] : K \in SUBSET {"n_clusters"} } }

\* what the libraries behind a call do: everything works, or the first failure
\* is in the tool's plotting or clustering ("tool"), in Figure.savefig
\* ("savefig"), or in the external model's generate_content ("generate_content")
ToolFaults == {"none", "tool"}
Lib(fault) == IF fault = "tool" THEN "raise" ELSE "ok"

----------------------------------------------------------------------------
\* Direct calls of the tools of src/eda.py: one call per behaviour, on every
\* enumerated dataset.

ToolCalls ==
    { [kind |-> "tool", name |-> name, args |-> args, fault |-> f] :
        name \in Range(ToolNames), args \in ToolArgs, f \in ToolFaults }

InitTool ==
    /\ df \in Datasets
    /\ agent = None /\ chat_history = <<>> /\ conclusion = None
    /\ file_name = None /\ initial_report_data = None
    /\ api_key = FALSE /\ uploaded_file = None /\ download = "absent"
    /\ submitted = <<>>
    /\ call \in ToolCalls /\ ret = None

CallTool ==
    /\ call.kind = "tool" /\ ret = None
    /\ ret' = Invoke(call.name, df, call.args, Lib(call.fault))
    /\ UNCHANGED <<chat_history, conclusion, agent, df, file_name,
                   initial_report_data, api_key, uploaded_file, download,
                   submitted, call>>

NextTool == CallTool

SpecTool == InitTool /\ [][NextTool]_vars

----------------------------------------------------------------------------
\* src/agent.py: EDAAgent.

\* What ask and interpret_plot produce: as Returned/Raised, with the outcome of
\* the tool call made on the way (None when no tool was called).
AskReturned(v, stages, tool) ==
    [raised |-> FALSE, value |-> v, stages |-> stages, tool |-> tool]
AskRaised(exc, msg, stages, tool) ==
    [raised |-> TRUE, exc |-> exc, msg |-> msg, stages |-> stages, tool |-> tool]

\* EDAAgent.interpret_plot: savefig runs before the try block; only
\* generate_content is inside it.
interpret_plot(plot_figure, fault) ==
    IF fault = "savefig"
    THEN Raised("RuntimeError", <<"savefig failed">>, <<"savefig">>)
    ELSE IF fault = "generate_content"
    THEN Returned(Str(<<"Erro ao interpretar o grafico: ", "model unavailable">>),
                  <<"savefig", "generate_content">>)
    ELSE Returned(Str(<<"insights on: ">> \o plot_figure.title),
                  <<"savefig", "generate_content">>)

\* hasattr(response_part, 'function_call')
HasFunctionCall(part) == "function_call" \in DOMAIN part

\* next((t for t in self.tools if t.__name__ == tool_name), None)
FindTool(tool_name) ==
    IF \E i \in DOMAIN ToolNames : ToolNames[i] = tool_name
    THEN T(tool_name) ELSE None

\* except (ValueError, TypeError) around the tool call and interpret_plot
CaughtByToolHandler(exc) == exc \in {"ValueError", "TypeError"}

\* the tool branch of ask, lines 93-112
AskTool(d, tool_name, args, fault) ==
    IF FindTool(tool_name) = None
    THEN AskReturned([type |-> T("error"),
                      data |-> Str(<<"Ferramenta '", tool_name, "' nao encontrada.">>)],
                     <<"send_message">>, None)
    ELSE LET out == Invoke(tool_name, d, args, Lib(fault))
             interp == interpret_plot(out.value, fault)
             failed == IF out.raised THEN out ELSE interp
         IN  IF out.raised \/ (IsFigure(out.value) /\ interp.raised)
             THEN IF CaughtByToolHandler(failed.exc)
                  THEN AskReturned(
                         [type |-> T("error"),
                          data |-> Str(<<"Erro ao usar a ferramenta '", tool_name, "': ">>
                                       \o failed.msg)],
                         <<"send_message", "invoke">> \o failed.stages, out)
                  ELSE AskRaised(failed.exc, failed.msg,
                                 <<"send_message", "invoke">> \o failed.stages, out)
             ELSE IF IsFigure(out.value)
             THEN AskReturned([type |-> T("plot_with_interpretation"),
                               plot |-> out.value,
                               interpretation |-> interp.value],
                              <<"send_message", "invoke">> \o interp.stages, out)
             ELSE AskReturned([type |-> T("tool_result"), data |-> out.value,
                               tool_name |-> T(tool_name)],
                              <<"send_message", "invoke">>, out)

\* a body that takes the tool branch for every part, reading a part without
\* a function call as a call of the tool named ""
AskBody_AlwaysTool(d, reply, fault) ==
    IF reply.kind = "raise"
    THEN AskRaised("RuntimeError", <<"chat session failed">>, <<"send_message">>, None)
    ELSE IF reply.parts = <<>>
    THEN AskRaised("IndexError", <<"list index out of range">>, <<"send_message">>, None)
    ELSE LET response_part == reply.parts[1] IN
         IF HasFunctionCall(response_part)
         THEN AskTool(d, response_part.function_call.name,
                      response_part.function_call.args, fault)
         ELSE AskTool(d, "", [cols |-> <<>>, nums |-> <<>>], fault)

\* the body of the try block of ask, lines 83-114
AskBody(d, reply, fault) ==
    IF reply.kind = "raise"
    THEN AskRaised("RuntimeError", <<"chat session failed">>, <<"send_message">>, None)
    ELSE IF reply.parts = <<>>
    THEN AskRaised("IndexError", <<"list index out of range">>, <<"send_message">>, None)
    ELSE LET response_part == reply.parts[1] IN
         IF HasFunctionCall(response_part)
         THEN AskTool(d, response_part.function_call.name,
                      response_part.function_call.args, fault)
         ELSE AskReturned([type |-> T("text"), data |-> response_part.text],
                          <<"send_message">>, None)

\* a handler as narrow as the one around the tool call
CaughtByAsk_Narrow(exc) == exc \in {"ValueError", "TypeError"}

\* except Exception as e, line 116: every exception of the model is one
CaughtByAsk(exc) == TRUE

\* EDAAgent.ask
ask(d, reply, fault) ==
    LET body == AskBody(d, reply, fault) IN
    IF body.raised /\ CaughtByAsk(body.exc)
    THEN AskReturned([type |-> T("error"),
                      data |-> Str(<<"Ocorreu um erro inesperado: ">> \o body.msg)],
                     body.stages, body.tool)
    ELSE body

----------------------------------------------------------------------------
\* The replies of the external chat model.

Questions == {"q1", "q2"}
ReplyTexts == {"the data has three columns"}
\* names the external model may call: the catalog, the name the documentation
\* uses for a tool, and a tool that does not exist
CallNames == Range(ToolNames) \cup {"histogram", "make_pie_chart"}

FunctionCall(name, args) ==
    [kind |-> "response",
     parts |-> << [function_call |-> [name |-> name, args |-> args]] >>]
TextReply(text) == [kind |-> "response", parts |-> << [text |-> T(text)] >>]

Replies ==
    { [kind |-> "raise"], [kind |-> "response", parts |-> <<>>] }
    \cup { TextReply(t) : t \in ReplyTexts }
    \cup { FunctionCall(n, a) : n \in CallNames, a \in ToolArgs }

Faults == {"none", "tool", "savefig", "generate_content"}

\* datasets of the calls of ask: those in which only income has missing cells
AskDatasets == { d \in Datasets : d.na["age"] = {} }

AskCalls ==
    { [kind |-> "ask", question |-> q, reply |-> r, fault |-> f] :
        q \in Questions, r \in Replies, f \in Faults }

InitAsk ==
    /\ df \in AskDatasets
    /\ agent = T("EDAAgent") /\ chat_history = <<>> /\ conclusion = None
    /\ file_name = None /\ initial_report_data = None
    /\ api_key = TRUE /\ uploaded_file = None /\ download = "absent"
    /\ submitted = <<>>
    /\ call \in AskCalls /\ ret = None

CallAsk ==
    /\ call.kind = "ask" /\ ret = None
    /\ ret' = ask(df, call.reply, call.fault)
    /\ UNCHANGED <<chat_history, conclusion, agent, df, file_name,
                   initial_report_data, api_key, uploaded_file, download,
                   submitted, call>>

NextAsk == CallAsk

SpecAsk == InitAsk /\ [][NextAsk]_vars


\* EDAAgent.ask_conclusion.  text is what the summarization model answers;
\* the outcome carries the blocks of history_summary and the requests issued.
ConclusionReturned(v, blocks, requests) ==
    [raised |-> FALSE, value |-> v, blocks |-> blocks, requests |-> requests]
ConclusionRaised(exc, msg) ==
    [raised |-> TRUE, exc |-> exc, msg |-> msg, blocks |-> <<>>, requests |-> 0]

\* the agent_part of an entry, lines 129-132
AgentPart(item) ==
    IF Get(item, "type", None) = T("plot_with_interpretation")
    THEN <<"Agente respondeu com um grafico e a seguinte interpretacao: ">>
         \o item.interpretation.parts
    ELSE <<"Agente respondeu: ">> \o Get(item, "agent", T("N/A")).parts

\* one entry of history_summary, lines 128-133
SummaryBlock(item) == <<"Usuario perguntou: ">> \o item.user.parts \o <<"\n">> \o AgentPart(item)

\* an entry the loop cannot format: item['user'] or item['interpretation'] is
\* missing (KeyError, outside the try block)
Unreadable(item) ==
    \/ "user" \notin DOMAIN item
    \/ /\ Get(item, "type", None) = T("plot_with_interpretation")
       /\ "interpretation" \notin DOMAIN item

\* a summary without the empty-history check
ask_conclusion_NoGuard(history, fault, text) ==
    IF \E i \in DOMAIN history : Unreadable(history[i])
    THEN ConclusionRaised("KeyError", <<"missing key">>)
    ELSE LET history_summary == [i \in DOMAIN history |-> SummaryBlock(history[i])] IN
         IF fault = "generate_content"
         THEN ConclusionReturned(Str(<<"Erro ao gerar conclusao: ", "model unavailable">>),
                                 history_summary, 1)
         ELSE ConclusionReturned(text, history_summary, 1)

ask_conclusion(history, fault, text) ==
    IF history = <<>>
    THEN ConclusionReturned(
             Str(<<"Nao ha historico de analise para gerar uma conclusao.">>), <<>>, 0)
    ELSE IF \E i \in DOMAIN history : Unreadable(history[i])
    THEN ConclusionRaised("KeyError", <<"missing key">>)
    ELSE LET history_summary == [i \in DOMAIN history |-> SummaryBlock(history[i])] IN
         IF fault = "generate_content"
         THEN ConclusionReturned(Str(<<"Erro ao gerar conclusao: ", "model unavailable">>),
                                 history_summary, 1)
         ELSE ConclusionReturned(text, history_summary, 1)

----------------------------------------------------------------------------
\* src/main.py: the Streamlit script.  Every widget event runs the script from
\* the top; the session state is what survives between runs.

Session ==
    [chat_history |-> chat_history, conclusion |-> conclusion, agent |-> agent,
     df |-> df, file_name |-> file_name, initial_report_data |-> initial_report_data,
     download |-> download, submitted |-> submitted]

\* EDAAgent(api_key, df): the agent keeps the dataset it was built on
EDAAgent(d) == [kind |-> "EDAAgent", df |-> d]

\* the columns of the dataset in file order
ColumnOrder == <<"age", "income", "city">>

ReportText(v) == [type |-> "text", content |-> v]
ReportPlot(v) == [type |-> "plot", content |-> v]

\* the sections of run_automatic_analysis, in insertion order: overview,
\* numeric columns (histogram then box plot of each), correlation when there
\* are two numeric columns, categorical columns with at most 20 values
ReportSections(d) ==
    LET numeric_cols == SelectSeq(ColumnOrder, LAMBDA c : is_numeric_dtype(d, c))
        categorical_cols == SelectSeq(ColumnOrder, LAMBDA c : c \in CategoricalColumns)
        few == SelectSeq(categorical_cols, LAMBDA c : nunique(d, c) <= 20)
    IN  << [name |-> "Visao Geral e Dados Faltantes",
            results |-> << ReportText(get_data_description(d).value),
                           ReportText(analyze_missing_data(d).value) >>] >>
        \o (IF numeric_cols = <<>> THEN <<>>
            ELSE << [name |-> "Analise de Colunas Numericas",
                     results |->
                       [k \in 1..(2 * Len(numeric_cols)) |->
                          IF k % 2 = 1
                          THEN ReportPlot(generate_histogram(d, numeric_cols[(k + 1) \div 2], "ok").value)
                          ELSE ReportPlot(generate_box_plot(d, numeric_cols[k \div 2], "ok").value)]] >>)
        \o (IF Len(numeric_cols) > 1
            THEN << [name |-> "Analise de Correlacao",
                     results |-> << ReportPlot(get_correlation_matrix(d, "ok").value) >>] >>
            ELSE <<>>)
        \o (IF categorical_cols = <<>> THEN <<>>
            ELSE << [name |-> "Analise de Colunas Categoricas",
                     results |->
                       [k \in 1..Len(few) |->
                          ReportPlot(generate_value_counts_bar_chart(d, few[k], "ok").value)]] >>)

\* run_automatic_analysis(df)
run_automatic_analysis(d) ==
    [kind |-> "report", nrows |-> d.nrows, sections |-> ReportSections(d)]

----------------------------------------------------------------------------
\* src/report_generator.py: the PDF report, as the sequence of what is written
\* to the document.

Op(op, text) == [op |-> op, text |-> text]

\* pieces of text that have a character outside latin-1
Unencodable == {"[check mark]"}

\* body.encode('latin-1', 'replace').decode('latin-1')
Latin1(parts) ==
    [i \in DOMAIN parts |-> IF parts[i] \in Unencodable THEN "?" ELSE parts[i]]

\* the text an f-string puts for a value
Format(v) == IF v = None THEN <<"None">> ELSE v.parts

\* PDFReport.chapter_title, chapter_body, add_plot
chapter_title(title) == <<Op("title", <<title>>)>>
chapter_body(body) == <<Op("body", Latin1(body))>>
add_plot(plot_fig) == <<Op("image", plot_fig.title)>>

\* line 67: the heading marks and the code fences are taken out of a text
CleanText(parts) == SelectSeq(parts, LAMBDA t : t \notin {"####", "[fence]"})

\* lines 65-72: one result of a pre-analysis section
ResultOps(result) ==
    IF result.type = "text" THEN chapter_body(CleanText(result.content.parts))
    ELSE IF result.type = "plot" THEN add_plot(result.content)
    ELSE <<>>

RECURSIVE ResultsOps(_)
ResultsOps(results) ==
    IF results = <<>> THEN <<>>
    ELSE ResultOps(Head(results)) \o ResultsOps(Tail(results))

\* lines 61-72: the sections of the pre-analysis report
RECURSIVE SectionsOps(_)
SectionsOps(sections) ==
    IF sections = <<>> THEN <<>>
    ELSE <<Op("cell", <<Head(sections).name>>)>>
         \o ResultsOps(Head(sections).results)
         \o SectionsOps(Tail(sections))

\* an entry written with the interpretation ahead of its chart
EntryOps_TextBeforeImage(message) ==
    chapter_body(<<"Usuario: ">> \o Format(message.user))
    \o (IF Get(message, "type", None) = T("plot_with_interpretation")
        THEN chapter_body(<<"Agente: (Grafico gerado abaixo com interpretacao)">>)
             \o chapter_body(<<"Interpretacao do Agente:\n">>
                              \o Format(message.interpretation))
             \o add_plot(message.plot)
        ELSE chapter_body(<<"Agente: ">> \o Format(Get(message, "agent", T("N/A")))))

\* lines 78-92: one entry of the transcript
EntryOps(message) ==
    chapter_body(<<"Usuario: ">> \o Format(message.user))
    \o (IF Get(message, "type", None) = T("plot_with_interpretation")
        THEN chapter_body(<<"Agente: (Grafico gerado abaixo com interpretacao)">>)
             \o add_plot(message.plot)
             \o chapter_body(<<"Interpretacao do Agente:\n">>
                              \o Format(message.interpretation))
        ELSE chapter_body(<<"Agente: ">> \o Format(Get(message, "agent", T("N/A")))))

RECURSIVE ChatOps(_)
ChatOps(history) ==
    IF history = <<>> THEN <<>>
    ELSE EntryOps(Head(history)) \o ChatOps(Tail(history))

\* an entry the report cannot write: the key user, plot or interpretation
\* that it reads with a subscript is missing (KeyError)
Unwritable(message) ==
    \/ "user" \notin DOMAIN message
    \/ /\ Get(message, "type", None) = T("plot_with_interpretation")
       /\ ~({"plot", "interpretation"} \subseteq DOMAIN message)

\* create_pdf_report.  fault "savefig" makes Figure.savefig fail in add_plot.
create_pdf_report(history, concl, name, report, fault) ==
    LET head == <<Op("add_page", <<>>)>>
                \o chapter_title("1. Resumo da Analise")
                \o chapter_body(<<"Arquivo Analisado: ">> \o Format(name))
                \o chapter_body(<<"Data da Analise: ", "[now]">>)
                \o chapter_title("2. Conclusao Principal Gerada pela IA")
        initial == IF report = None THEN <<>>
                   ELSE <<Op("add_page", <<>>)>>
                        \o chapter_title("3. Analise Automatica Inicial")
                        \o SectionsOps(report.sections)
        chat == IF history = <<>> THEN <<>>
                ELSE <<Op("add_page", <<>>)>>
                     \o chapter_title("4. Analise Detalhada (Historico do Chat)")
                     \o ChatOps(history)
    IN  IF concl = None
        THEN Raised("AttributeError", <<"'NoneType' object has no attribute 'encode'">>,
                    <<>>)
        ELSE IF \E i \in DOMAIN history : Unwritable(history[i])
        THEN Raised("KeyError", <<"missing key">>, <<>>)
        ELSE LET ops == head \o chapter_body(concl.parts) \o initial \o chat IN
             IF fault = "savefig" /\ \E i \in DOMAIN ops : ops[i].op = "image"
             THEN Raised("RuntimeError", <<"savefig failed">>, <<"savefig">>)
             ELSE Returned([kind |-> "pdf", ops |-> ops], <<"output">>)

\* line 95, `if uploaded_file and not st.session_state.df`: with a file in the
\* uploader the right operand is evaluated, and the truth value of a loaded
\* DataFrame is a ValueError (pandas refuses it); nothing catches it here, so
\* the run stops before any widget below is drawn
ScriptStops(S, file) == file # None /\ S.df # None

\* lines 95-106 when the run goes on: load the file once, build the agent when
\* a key is typed; a file pd.read_csv cannot parse leaves df None
SidebarLoad(S, file, key) ==
    IF file = None THEN S
    ELSE IF file.data = None
    THEN [S EXCEPT !.df = None]
    ELSE [S EXCEPT !.df = file.data, !.file_name = file.name,
                   !.agent = IF key THEN EDAAgent(file.data) ELSE S.agent]

\* a download button that is never disabled
Disabled_Never(c) == FALSE

\* `disabled=not st.session_state.conclusion`
Disabled(c) == ~Truthy(c)

\* lines 108-131: the conclusion button and the download button.  click is None
\* or what the summarization model does when the button was clicked.
SidebarActions(S, click) ==
    IF S.agent = None THEN [S EXCEPT !.download = "absent"]
    ELSE LET c == IF click # None /\ S.chat_history # <<>>
                  THEN ask_conclusion(S.chat_history, click.fault, click.text).value
                  ELSE S.conclusion
         IN  [S EXCEPT !.conclusion = c,
                       !.download = IF Disabled(c) THEN "disabled" ELSE "enabled"]

\* a turn that records nothing of an error response but its type
Entry_NoAgentOnError(user_prompt, response) ==
    IF response.type = T("plot_with_interpretation")
    THEN Update([user |-> user_prompt],
                [type |-> T("plot_with_interpretation"), plot |-> response.plot,
                 interpretation |-> response.interpretation])
    ELSE IF response.type = T("error")
    THEN Update([user |-> user_prompt], [type |-> T("error")])
    ELSE Update([user |-> user_prompt],
                [agent |-> Get(response, "data", Str(<<>>)),
                 type |-> Get(response, "type", T("error"))])

\* lines 154-172: the entry of one turn, from the prompt and the dict ask returned
Entry(user_prompt, response) ==
    IF response.type = T("plot_with_interpretation")
    THEN Update([user |-> user_prompt],
                [type |-> T("plot_with_interpretation"), plot |-> response.plot,
                 interpretation |-> response.interpretation])
    ELSE Update([user |-> user_prompt],
                [agent |-> Get(response, "data", Str(<<>>)),
                 type |-> Get(response, "type", T("error"))])

\* a turn that updates the last entry without appending one first
AppendTurn_Overwrite(history, entry) ==
    IF history = <<>> THEN <<entry>> ELSE [history EXCEPT ![Len(history)] = entry]

\* chat_history.append(...) and chat_history[-1].update(...)
AppendTurn(history, entry) == Append(history, entry)

\* lines 134-173.  prompt is None or what st.chat_input returned together with
\* what the external services do during the turn.  The st.rerun() that ends a
\* turn runs the script again without any event, which changes nothing.
MainArea(S, prompt) ==
    IF S.agent = None THEN S
    ELSE LET report == IF S.initial_report_data = None
                       THEN run_automatic_analysis(S.df)
                       ELSE S.initial_report_data
             R == [S EXCEPT !.initial_report_data = report]
         IN  IF prompt = None THEN R
             ELSE LET response == ask(S.agent.df, prompt.reply, prompt.fault).value IN
                  [R EXCEPT !.chat_history =
                                AppendTurn(S.chat_history,
                                           Entry(T(prompt.question), response)),
                            !.submitted = Append(S.submitted, prompt.question)]

\* one run of the script
Script(S, file, key, click, prompt) ==
    IF ScriptStops(S, file)
    THEN [S EXCEPT !.download = "absent"]
    ELSE MainArea(SidebarActions(SidebarLoad(S, file, key), click), prompt)

Becomes(S) ==
    /\ chat_history' = S.chat_history /\ conclusion' = S.conclusion
    /\ agent' = S.agent /\ df' = S.df /\ file_name' = S.file_name
    /\ initial_report_data' = S.initial_report_data
    /\ download' = S.download /\ submitted' = S.submitted

\* the dataset of the sessions: two rows, one income missing
SessionData == [kind |-> "DataFrame", nrows |-> 2,
                na |-> [c \in Columns |-> IF c = "income" THEN {2} ELSE {}]]

\* the files a user uploads: a CSV file, and a file read_csv rejects
Files == { [name |-> T("data.csv"), data |-> SessionData],
           [name |-> T("notes.bin"), data |-> None] }

NoArgs == [cols |-> <<>>, nums |-> <<>>]
OneColumn(c) == [cols |-> [column_name |-> c], nums |-> <<>>]

\* the replies of the chat model during sessions: one for each way ask ends
SessionReplies ==
    { [kind |-> "raise"],
      TextReply("the data has three columns"),
      FunctionCall("make_pie_chart", NoArgs),
      FunctionCall("get_data_description", NoArgs),
      FunctionCall("generate_histogram", OneColumn("age")),
      FunctionCall("generate_histogram", OneColumn("city")),
      FunctionCall("generate_histogram", OneColumn("zip")) }

Prompts ==
    { [question |-> q, reply |-> r, fault |-> f] :
        q \in Questions, r \in SessionReplies, f \in Faults }

\* what the summarization model does: fails, or answers a text, possibly empty
Clicks ==
    { [fault |-> "generate_content", text |-> Str(<<>>)],
      [fault |-> "none", text |-> Str(<<>>)],
      [fault |-> "none", text |-> T("the data shows two groups")] }

Init ==
    /\ chat_history = <<>> /\ agent = None /\ df = None /\ conclusion = None
    /\ file_name = None /\ initial_report_data = None
    /\ api_key = FALSE /\ uploaded_file = None /\ download = "absent"
    /\ submitted = <<>>
    /\ call = None /\ ret = None

\* the user types or clears the API key
TypeApiKey ==
    /\ api_key' = ~api_key
    /\ Becomes(Script(Session, uploaded_file, api_key', None, None))
    /\ UNCHANGED <<uploaded_file, call, ret>>

\* the user puts a file in the uploader
UploadFile ==
    \E f \in Files :
        /\ uploaded_file = None
        /\ uploaded_file' = f
        /\ Becomes(Script(Session, f, api_key, None, None))
        /\ UNCHANGED <<api_key, call, ret>>

\* the user takes the file out of the uploader
RemoveFile ==
    /\ uploaded_file # None
    /\ uploaded_file' = None
    /\ Becomes(Script(Session, None, api_key, None, None))
    /\ UNCHANGED <<api_key, call, ret>>

\* the user clicks "Gerar Conclusao Final", drawn by the previous run
ClickWith(click) ==
    /\ download # "absent"
    /\ Becomes(Script(Session, uploaded_file, api_key, click, None))
    /\ UNCHANGED <<api_key, uploaded_file, call, ret>>

ClickConclusion == \E click \in Clicks : ClickWith(click)

\* the user sends a question through the chat input, drawn by the previous run
SubmitQuestion ==
    \E prompt \in Prompts :
        /\ download # "absent"
        /\ Len(chat_history) < MaxTurns
        /\ Becomes(Script(Session, uploaded_file, api_key, None, prompt))
        /\ UNCHANGED <<api_key, uploaded_file, call, ret>>

Next == TypeApiKey \/ UploadFile \/ RemoveFile \/ ClickConclusion \/ SubmitQuestion

Spec == Init /\ [][Next]_vars

----------------------------------------------------------------------------
\* Direct calls of ask_conclusion on the transcripts the chat loop builds.

SessionEntries ==
    { Entry(T(p.question), ask(SessionData, p.reply, p.fault).value) : p \in Prompts }

Transcripts == UNION { [1..n -> SessionEntries] : n \in 0..MaxTurns }

ConclusionCalls ==
    { [kind |-> "ask_conclusion", fault |-> c.fault, text |-> c.text] : c \in Clicks }

InitConclusion ==
    /\ chat_history \in Transcripts
    /\ df = SessionData /\ agent = EDAAgent(SessionData) /\ conclusion = None
    /\ file_name = T("data.csv")
    /\ initial_report_data = run_automatic_analysis(SessionData)
    /\ api_key = TRUE /\ uploaded_file = None /\ download = "disabled"
    /\ submitted = [i \in DOMAIN chat_history |-> chat_history[i].user.parts[1]]
    /\ call \in ConclusionCalls /\ ret = None

CallAskConclusion ==
    /\ call.kind = "ask_conclusion" /\ ret = None
    /\ ret' = ask_conclusion(chat_history, call.fault, call.text)
    /\ UNCHANGED <<chat_history, conclusion, agent, df, file_name,
                   initial_report_data, api_key, uploaded_file, download,
                   submitted, call>>

NextConclusion == CallAskConclusion

SpecConclusion == InitConclusion /\ [][NextConclusion]_vars

----------------------------------------------------------------------------
\* Direct calls of create_pdf_report on the transcripts the chat loop builds.

ReportConclusions ==
    { T("the data shows two groups"),
      Str(<<"the data shows two groups ", "[check mark]">>),
      Str(<<"Erro ao gerar conclusao: ", "model unavailable">>) }

ReportCalls ==
    { [kind |-> "create_pdf_report", fault |-> f] : f \in {"none", "savefig"} }

InitReport ==
    /\ chat_history \in Transcripts
    /\ df = SessionData /\ agent = EDAAgent(SessionData)
    /\ conclusion \in ReportConclusions
    /\ file_name = T("data.csv")
    /\ initial_report_data \in {None, run_automatic_analysis(SessionData)}
    /\ api_key = TRUE /\ uploaded_file = None /\ download = "enabled"
    /\ submitted = [i \in DOMAIN chat_history |-> chat_history[i].user.parts[1]]
    /\ call \in ReportCalls /\ ret = None

CallCreatePdfReport ==
    /\ call.kind = "create_pdf_report" /\ ret = None
    /\ ret' = create_pdf_report(chat_history, conclusion, file_name,
                                initial_report_data, call.fault)
    /\ UNCHANGED <<chat_history, conclusion, agent, df, file_name,
                   initial_report_data, api_key, uploaded_file, download,
                   submitted, call>>

NextReport == CallCreatePdfReport

SpecReport == InitReport /\ [][NextReport]_vars

----------------------------------------------------------------------------
\* Direct calls of get_unique_values on columns of up to MaxDistinct rows,
\* with and without missing cells.

MaxDistinct == 23

\* which rows of the column are missing
MissingRows(n) == { m \in {{}, {1}, {n}, {1, n}, {3}} : m \subseteq 1..n }

UniqueDatasets ==
    UNION { { [kind |-> "DataFrame", nrows |-> n,
               na |-> [c \in Columns |-> IF c = "age" THEN m ELSE {}]] :
                m \in MissingRows(n) } : n \in 0..(MaxDistinct + 1) }

UniqueCalls == { [kind |-> "get_unique_values", column_name |-> c] : c \in ColumnNames }

InitUnique ==
    /\ df \in UniqueDatasets
    /\ agent = None /\ chat_history = <<>> /\ submitted = <<>>
    /\ conclusion = None /\ file_name = None /\ initial_report_data = None
    /\ api_key = TRUE /\ uploaded_file = None /\ download = "disabled"
    /\ call \in UniqueCalls /\ ret = None

CallGetUniqueValues ==
    /\ call.kind = "get_unique_values" /\ ret = None
    /\ ret' = get_unique_values(df, call.column_name)
    /\ UNCHANGED <<chat_history, conclusion, agent, df, file_name,
                   initial_report_data, api_key, uploaded_file, download,
                   submitted, call>>

NextUnique == CallGetUniqueValues

SpecUnique == InitUnique /\ [][NextUnique]_vars

----------------------------------------------------------------------------
\* Reading a finished call.

Done == ret # None
Count(seq, x) == Cardinality({ i \in DOMAIN seq : seq[i] = x })

\* the error kinds of the tools, told apart as a caller can: by exception class
\* and message
IsColumnNotFound(o) ==
    o.raised /\ o.exc = "ValueError" /\ o.msg[1] = "Coluna '"
    /\ o.msg[3] \in {"' nao encontrada no DataFrame.", "' nao encontrada."}
IsTypeMismatch(o) ==
    o.raised /\ o.exc = "TypeError" /\ o.msg[1] = "A coluna '"
IsInsufficientData(o) ==
    o.raised /\ o.exc = "ValueError"
    /\ o.msg = <<"Nao ha dados suficientes para formar os clusters solicitados.">>

ColumnTools ==
    {"generate_histogram", "generate_scatter_plot", "get_value_counts",
     "generate_box_plot", "perform_k_means_clustering", "get_unique_values",
     "generate_value_counts_bar_chart"}
NumericTools ==
    {"generate_histogram", "generate_scatter_plot", "generate_box_plot",
     "perform_k_means_clustering"}

\* the call passes exactly the keywords the tool takes
WellFormed(name, args) ==
    Required(name) \subseteq ArgKeys(args) /\ ArgKeys(args) \subseteq Accepted(name)
\* the columns the call names
Named(name, args) == { args.cols[k] : k \in Required(name) }

\* the tool call inside the reply of an ask call
IsCallReply(r) == r.kind = "response" /\ r.parts # <<>> /\ HasFunctionCall(r.parts[1])
Fc == call.reply.parts[1].function_call

TypeText == T("text")
TypeError == T("error")
TypeToolResult == T("tool_result")
TypePlot == T("plot_with_interpretation")

----------------------------------------------------------------------------
\* C1: ask never raises; whatever the external model, the tool and the
\* interpretation step do, it returns a dict whose type is text, tool_result,
\* plot_with_interpretation or error.
C1_AskNeverRaises ==
    Done => /\ ~ret.raised
            /\ ret.value.type \in {TypeText, TypeToolResult, TypePlot, TypeError}

\* an exception that is neither ValueError nor TypeError left the tool branch
\* (savefig failed on a chart) and ask returned an error result
C1_Witness ==
    /\ Done /\ call.fault = "savefig"
    /\ ret.tool # None /\ ~ret.tool.raised /\ IsFigure(ret.tool.value)
    /\ ~ret.raised /\ ret.value.type = TypeError

\* C2: a plain text reply, one whose part carries no function call, yields the
\* result tagged text carrying the reply's content, and no tool is invoked.
C2_TextReply ==
    (Done /\ call.reply.kind = "response" /\ call.reply.parts # <<>>
          /\ "function_call" \notin DOMAIN call.reply.parts[1])
    => /\ ~ret.raised
       /\ ret.value = [type |-> TypeText, data |-> call.reply.parts[1].text]
       /\ Count(ret.stages, "invoke") = 0
       /\ ret.tool = None

C2_Witness ==
    /\ Done /\ call.reply = TextReply("the data has three columns")
    /\ ret.value.type = TypeText

\* C3 (as claimed): a tool invocation is resolved by exact name and invokes at
\* most one tool; an unknown name yields the tool-not-found error without any
\* invocation, a chart yields plot_with_interpretation carrying the chart and
\* an interpretation, any other value yields tool_result with value and name.
C3_ToolDispatch ==
    (Done /\ IsCallReply(call.reply))
    => /\ ~ret.raised
       /\ Count(ret.stages, "invoke") <= 1
       /\ (\A i \in DOMAIN ToolNames : ToolNames[i] # Fc.name)
            => /\ ret.value = [type |-> TypeError,
                               data |-> Str(<<"Ferramenta '", Fc.name,
                                              "' nao encontrada.">>)]
               /\ Count(ret.stages, "invoke") = 0
       /\ (ret.tool # None /\ ~ret.tool.raised /\ IsFigure(ret.tool.value))
            => /\ ret.value.type = TypePlot
               /\ ret.value.plot = ret.tool.value
               /\ "interpretation" \in DOMAIN ret.value
       /\ (ret.tool # None /\ ~ret.tool.raised /\ ~IsFigure(ret.tool.value))
            => ret.value = [type |-> TypeToolResult, data |-> ret.tool.value,
                            tool_name |-> T(Fc.name)]

\* C5 (as claimed): when the tool returned a chart and the interpretation step
\* fails, in the request or in rendering the chart, ask still returns
\* plot_with_interpretation with the chart and an error string as interpretation.
C5_InterpretationNeverBlocksChart ==
    (Done /\ call.fault \in {"savefig", "generate_content"}
          /\ ret.tool # None /\ ~ret.tool.raised /\ IsFigure(ret.tool.value))
    => /\ ~ret.raised
       /\ ret.value.type = TypePlot
       /\ ret.value.plot = ret.tool.value
       /\ ret.value.interpretation.parts[1] = "Erro ao interpretar o grafico: "

\* C6 (as claimed): a column tool called with at least one named column that
\* is not in the schema raises the column-not-found ValueError, whatever the
\* other named columns are.
C6_AbsentColumnIsColumnNotFound ==
    (Done /\ call.name \in ColumnTools /\ WellFormed(call.name, call.args)
          /\ \E c \in Named(call.name, call.args) : c \notin Columns)
    => IsColumnNotFound(ret)

\* C7 (as claimed): histogram, scatter, box plot and k-means called with a
\* named column that exists and is not numeric raise the type-mismatch
\* TypeError before any computation, and ask returns an error result.
C7_NonNumericIsTypeMismatch ==
    (Done /\ IsCallReply(call.reply) /\ Fc.name \in NumericTools
          /\ WellFormed(Fc.name, Fc.args)
          /\ \E c \in Named(Fc.name, Fc.args) : c \in CategoricalColumns)
    => /\ IsTypeMismatch(ret.tool) /\ ret.tool.stages = <<>>
       /\ ~ret.raised /\ ret.value.type = TypeError

\* C7 (amended): the same, when every named column exists in the dataset.
C7_NonNumericAmongExisting ==
    (Done /\ IsCallReply(call.reply) /\ Fc.name \in NumericTools
          /\ WellFormed(Fc.name, Fc.args)
          /\ Named(Fc.name, Fc.args) \subseteq Columns
          /\ \E c \in Named(Fc.name, Fc.args) : c \in CategoricalColumns)
    => /\ IsTypeMismatch(ret.tool) /\ ret.tool.stages = <<>>
       /\ ~ret.raised /\ ret.value.type = TypeError
       /\ ret.value.data.parts[1] = "Erro ao usar a ferramenta '"

C7_Witness ==
    /\ Done /\ IsCallReply(call.reply) /\ Fc.name = "perform_k_means_clustering"
    /\ WellFormed(Fc.name, Fc.args)
    /\ Fc.args.cols.column_x = "age" /\ Fc.args.cols.column_y = "city"
    /\ IsTypeMismatch(ret.tool) /\ ret.value.type = TypeError

\* C8: k-means on two existing numeric columns raises the insufficient-data
\* error, before the clustering step, exactly when n_clusters exceeds the number
\* of rows in which both columns are present.
C8_InsufficientData ==
    (Done /\ call.name = "perform_k_means_clustering"
          /\ WellFormed(call.name, call.args)
          /\ Named(call.name, call.args) \subseteq NumericColumns)
    => LET x == call.args.cols.column_x
           y == call.args.cols.column_y
           n == IF "n_clusters" \in DOMAIN call.args.nums
                THEN call.args.nums.n_clusters ELSE 3
           rows == Cardinality({ i \in 1..df.nrows : i \notin (df.na[x] \cup df.na[y]) })
       IN  /\ n > rows => (IsInsufficientData(ret) /\ Count(ret.stages, "cluster") = 0)
           /\ n <= rows => ~IsInsufficientData(ret)

\* as many clusters as paired rows, with a row dropped for a missing cell: the
\* request is accepted
C8_Witness ==
    /\ Done /\ call.name = "perform_k_means_clustering"
    /\ WellFormed(call.name, call.args)
    /\ call.args.cols.column_x = "age" /\ call.args.cols.column_y = "income"
    /\ "n_clusters" \in DOMAIN call.args.nums
    /\ df.na["income"] # {}
    /\ call.args.nums.n_clusters = Cardinality(PairedRows(df, "age", "income"))
    /\ call.args.nums.n_clusters >= 1
    /\ ~ret.raised /\ IsFigure(ret.value)

\* C4: the transcript is append-only and holds one entry per question the chat
\* input handed over, in that order, whatever ask returned; a step leaves it
\* alone or appends one entry after the entries already there.
C4_TranscriptAppendOnly ==
    /\ [](/\ Len(chat_history) = Len(submitted)
          /\ \A i \in DOMAIN chat_history : chat_history[i].user = T(submitted[i]))
    /\ [][\/ chat_history' = chat_history
          \/ /\ Len(chat_history') = Len(chat_history) + 1
             /\ SubSeq(chat_history', 1, Len(chat_history)) = chat_history]_vars

\* two turns, the first answered with the tool-not-found error and the second
\* with a chart
C4_Witness ==
    /\ Len(chat_history) = 2 /\ submitted = <<"q2", "q1">>
    /\ chat_history[1].type = TypeError
    /\ chat_history[1].agent = Str(<<"Ferramenta '", "make_pie_chart", "' nao encontrada.">>)
    /\ chat_history[2].type = TypePlot

\* C9: ask_conclusion on an empty transcript returns the fixed message and
\* sends nothing; on a transcript of the chat loop it sends one request whose
\* prompt has one block per entry, in order, with the interpretation standing
\* for the chart, and returns the model's text or an error string.
C9_Conclusion ==
    Done =>
      /\ ~ret.raised
      /\ chat_history = <<>>
           => /\ ret.value = Str(<<"Nao ha historico de analise para gerar uma conclusao.">>)
              /\ ret.requests = 0
      /\ chat_history # <<>>
           => /\ ret.requests = 1
              /\ Len(ret.blocks) = Len(chat_history)
              /\ \A i \in DOMAIN chat_history :
                   LET e == chat_history[i] IN
                   ret.blocks[i] =
                       <<"Usuario perguntou: ", submitted[i], "\n">>
                       \o (IF e.type = TypePlot
                           THEN <<"Agente respondeu com um grafico e a seguinte interpretacao: ">>
                                \o e.interpretation.parts
                           ELSE <<"Agente respondeu: ">> \o e.agent.parts)
              /\ ret.value = IF call.fault = "none" THEN call.text
                             ELSE Str(<<"Erro ao gerar conclusao: ", "model unavailable">>)

\* a chart entry followed by a text entry, summarized in one request
C9_Witness ==
    /\ Done /\ Len(chat_history) = 2
    /\ chat_history[1].type = TypePlot /\ chat_history[2].type = TypeText
    /\ ret.requests = 1 /\ Len(ret.blocks) = 2
    /\ ret.value = T("the data shows two groups")

\* C10: the download is enabled only while a conclusion is set; the conclusion
\* is None while the transcript is empty, changes only in a click on the
\* conclusion button with a non-empty transcript, and such a click replaces it
\* by what that request returned.
C10_ExportNeedsConclusion ==
    /\ [](/\ download = "enabled" => conclusion # None
          /\ chat_history = <<>> => conclusion = None)
    /\ [][/\ conclusion' # conclusion => (ClickConclusion /\ chat_history # <<>>)
          /\ \A click \in Clicks :
               (ClickWith(click) /\ ~(uploaded_file # None /\ df # None))
                 => conclusion' =
                      IF chat_history = <<>> THEN conclusion
                      ELSE IF click.fault = "none" THEN click.text
                      ELSE Str(<<"Erro ao gerar conclusao: ", "model unavailable">>)]_vars

\* a conclusion is set and the download is enabled
C10_Witness ==
    /\ conclusion = T("the data shows two groups") /\ download = "enabled"
    /\ Len(chat_history) = 1

----------------------------------------------------------------------------
\* The document of a finished create_pdf_report call.

ReportDone == Done /\ call.kind = "create_pdf_report" /\ ~ret.raised
ReportOps == ret.value.ops

TitleTexts ==
    LET titles == SelectSeq(ReportOps, LAMBDA o : o.op = "title")
    IN  [k \in DOMAIN titles |-> titles[k].text[1]]

ExpectedTitles ==
    << "1. Resumo da Analise", "2. Conclusao Principal Gerada pela IA" >>
    \o (IF initial_report_data # None THEN <<"3. Analise Automatica Inicial">> ELSE <<>>)
    \o (IF chat_history # <<>> THEN <<"4. Analise Detalhada (Historico do Chat)">>
        ELSE <<>>)

TitleAt(n) == CHOOSE k \in DOMAIN ReportOps : ReportOps[k] = Op("title", <<ExpectedTitles[n]>>)

\* what follows the heading of section 4
ChatPart == SubSeq(ReportOps, TitleAt(Len(ExpectedTitles)) + 1, Len(ReportOps))

QuestionLines ==
    { k \in DOMAIN ChatPart : ChatPart[k].op = "body" /\ Head(ChatPart[k].text) = "Usuario: " }

\* where the i-th entry starts in section 4, and where the next one starts
EntryStart(i) ==
    CHOOSE k \in QuestionLines : Cardinality({j \in QuestionLines : j < k}) = i - 1
EntryEnd(i) == IF i = Len(chat_history) THEN Len(ChatPart) + 1 ELSE EntryStart(i + 1)
EntryImages(i) ==
    { k \in (EntryStart(i) + 1)..(EntryEnd(i) - 1) : ChatPart[k].op = "image" }

IsPlotEntry(entry) == Get(entry, "type", None) = T("plot_with_interpretation")

\* C11: create_pdf_report writes its sections in the order 1 (file name and
\* timestamp), 2 (conclusion), 3 (pre-analysis report), 4 (transcript); in
\* section 4 the entries come in transcript order, each starting with the
\* question; an entry with a chart has exactly one image, then its
\* interpretation, before the next entry; any other entry has the agent's text
\* and no image.
C11_ReportOrder ==
    ReportDone =>
      /\ TitleTexts = ExpectedTitles
      /\ SubSeq(ReportOps, TitleAt(1) + 1, TitleAt(2) - 1)
           = << Op("body", <<"Arquivo Analisado: ">> \o file_name.parts),
                Op("body", <<"Data da Analise: ", "[now]">>) >>
      /\ ReportOps[TitleAt(2) + 1] = Op("body", Latin1(conclusion.parts))
      /\ \A k \in 1..(TitleAt(2) + 1) : ReportOps[k].op # "image"
      /\ chat_history # <<>> =>
           /\ Cardinality(QuestionLines) = Len(chat_history)
           /\ 1 \in QuestionLines
           /\ \A i \in DOMAIN chat_history :
                /\ ChatPart[EntryStart(i)].text = <<"Usuario: ", submitted[i]>>
                /\ IF IsPlotEntry(chat_history[i])
                   THEN /\ Cardinality(EntryImages(i)) = 1
                        /\ \A k \in EntryImages(i) :
                             /\ ChatPart[k].text = chat_history[i].plot.title
                             /\ \E j \in (k + 1)..(EntryEnd(i) - 1) :
                                  ChatPart[j] =
                                    Op("body", <<"Interpretacao do Agente:\n">>
                                         \o Latin1(chat_history[i].interpretation.parts))
                   ELSE /\ EntryImages(i) = {}
                        /\ \E j \in (EntryStart(i) + 1)..(EntryEnd(i) - 1) :
                             ChatPart[j] =
                               Op("body", <<"Agente: ">>
                                    \o Latin1(chat_history[i].agent.parts))

\* a report with all four sections whose transcript has a chart entry followed
\* by a text entry, and a conclusion that latin-1 cannot hold whole
C11_Witness ==
    /\ ReportDone
    /\ Len(ExpectedTitles) = 4
    /\ Len(chat_history) = 2
    /\ IsPlotEntry(chat_history[1]) /\ ~IsPlotEntry(chat_history[2])
    /\ \E t \in Unencodable : \E i \in DOMAIN conclusion.parts : conclusion.parts[i] = t

----------------------------------------------------------------------------
\* The report of a finished get_unique_values call.

UniqueDone == Done /\ call.kind = "get_unique_values" /\ ~ret.raised
UniqueParts == ret.value.parts

\* the count the report gives, as the text of a number
ReportedCount == UniqueParts[4]

\* the report ends with a remainder when it gives a sample
HasRemainder == UniqueParts[5] = "Amostra de valores: "
Remainder == IF HasRemainder THEN UniqueParts[Len(UniqueParts) - 1] ELSE "0"
Listed ==
    IF HasRemainder THEN SubSeq(UniqueParts, 6, Len(UniqueParts) - 3)
    ELSE SubSeq(UniqueParts, 6, Len(UniqueParts))

\* the distinct values of the column, the missing value not being one
DistinctValues ==
    { ToString(i) : i \in (1..df.nrows) \ df.na[call.column_name] }

\* C12: get_unique_values on an existing column gives the count of distinct
\* values; with at most 20 it lists every distinct value; with more it lists
\* exactly 5 of them and a remainder of the count minus 5; the number listed
\* plus the remainder is the count, also when the column has missing values.
C12_UniqueValuesListing ==
    UniqueDone =>
      LET count == Cardinality(DistinctValues) IN
      /\ ReportedCount = ToString(count)
      /\ Range(Listed) \subseteq DistinctValues
      /\ Cardinality(Range(Listed)) = Len(Listed)
      /\ IF count <= 20
         THEN ~HasRemainder /\ Len(Listed) = count
         ELSE HasRemainder /\ Len(Listed) = 5 /\ Remainder = ToString(count - 5)

\* the same, for columns without a missing value
C12_HoldsWithoutMissing ==
    (UniqueDone /\ df.na[call.column_name] = {}) => C12_UniqueValuesListing

\* 23 distinct values: 5 listed and 18 more
C12_Witness ==
    /\ UniqueDone /\ df.na[call.column_name] = {}
    /\ Cardinality(DistinctValues) = 23
    /\ Len(Listed) = 5 /\ Remainder = "18"

----------------------------------------------------------------------------
\* The entries of the transcript and the functions that read them.

EntryWellFormed(entry) ==
    /\ {"user", "type"} \subseteq DOMAIN entry
    /\ IF IsPlotEntry(entry)
       THEN {"plot", "interpretation"} \subseteq DOMAIN entry
       ELSE "agent" \in DOMAIN entry

\* C13: after any completed turn every entry of the transcript has a user and
\* a type field, a plot and an interpretation field when its type is
\* plot_with_interpretation and an agent field otherwise; so ask_conclusion and
\* create_pdf_report find every field they read, whatever ask returned.
C13_EntriesWellFormed ==
    /\ \A i \in DOMAIN chat_history :
         /\ EntryWellFormed(chat_history[i])
         /\ ~Unreadable(chat_history[i])
         /\ ~Unwritable(chat_history[i])
    /\ ~ask_conclusion(chat_history, "none", T("the data shows two groups")).raised
    /\ Truthy(conclusion) =>
         ~create_pdf_report(chat_history, conclusion, file_name,
                            initial_report_data, "none").raised

\* a session whose transcript has a chart entry and an error entry, with a
\* conclusion so that the report is built from it
C13_Witness ==
    /\ Len(chat_history) = 2
    /\ \E i, j \in DOMAIN chat_history :
         /\ IsPlotEntry(chat_history[i])
         /\ chat_history[j].type = TypeError
    /\ Truthy(conclusion)
====
